---- MODULE Spec2Model ----
(***************************************************************************)
(* Model of the nurse-rota scheduling core (backend/src/scheduling):       *)
(* the domain objects of domain.py, the constraint library and registry of *)
(* constraint_library.py, the parser/formatter of json_utils.py and the    *)
(* solve pipeline of solver.py.                                            *)
(*                                                                         *)
(* Time is counted in whole hours since midnight of day 0, so that         *)
(* date(t) = t \div 24 and hour(t) = t % 24.  An Employee reference is     *)
(* represented by the employee's id (Employee.__eq__/__hash__ are by id).  *)
(* A Python dict is a TLA+ function whose DOMAIN is its key set.           *)
(***************************************************************************)
EXTENDS Integers, Sequences, FiniteSets, TLC

VARIABLES pc, data, schedule, constraint_provider, constraintMatchTotals,
          best, output, log, spent, engine

vars == <<pc, data, schedule, constraint_provider, constraintMatchTotals,
          best, output, log, spent, engine>>

(* ------------------------------ bounds --------------------------------- *)
NumShifts == 3
MaxDay == 1

(* ------------------------------ helpers -------------------------------- *)
None == "None"

Abs(x) == IF x < 0 THEN 0 - x ELSE x

RECURSIVE SumOver(_, _)
SumOver(S, f) ==
  IF S = {} THEN 0
  ELSE LET x == CHOOSE y \in S : TRUE IN f[x] + SumOver(S \ {x}, f)

\* dict.get(key, default)
DictGet(d, k, default) == IF k \in DOMAIN d THEN d[k] ELSE default

\* binding of a keyword parameter when a function is called with **c
KwArg(c, param, default) == IF param \in DOMAIN c THEN c[param] ELSE default

DateOf(t) == t \div 24
HourOf(t) == t % 24

\* str "<" on shift ids of the form "<date>-<code>"
CodeRank(code) == CASE code = "E" -> 1 [] code = "M" -> 2 [] code = "N" -> 3
IdLess(a, b) == a[1] < b[1] \/ (a[1] = b[1] /\ CodeRank(a[2]) < CodeRank(b[2]))

(* ------------------------------ domain.py ------------------------------ *)
\* overlaps that holds only when the span covers the whole queried interval
overlaps_Covering(ts, other_start, other_end) ==
  ts.start <= other_start /\ other_end <= ts.end

\* overlaps that also holds for intervals that only touch
overlaps_Closed(ts, other_start, other_end) ==
  LET mx == IF ts.start > other_start THEN ts.start ELSE other_start
      mn == IF ts.end < other_end THEN ts.end ELSE other_end
  IN mx <= mn

\* TimeSpan.overlaps
overlaps(ts, other_start, other_end) ==
  LET mx == IF ts.start > other_start THEN ts.start ELSE other_start
      mn == IF ts.end < other_end THEN ts.end ELSE other_end
  IN mx < mn

\* Employee.is_unavailable
is_unavailable(emp, shift_start, shift_end) ==
  \E k \in DOMAIN emp.unavailable_time_spans :
     overlaps(emp.unavailable_time_spans[k], shift_start, shift_end)

\* Employee.has_preference
has_preference(emp, shift_start, shift_end) ==
  \E k \in DOMAIN emp.preferred_time_spans :
     overlaps(emp.preferred_time_spans[k], shift_start, shift_end)

NightStartHour == 22
MorningEndHour == 12

\* Shift.is_night_shift
is_night_shift(s) == DateOf(s.end) > DateOf(s.start) \/ HourOf(s.start) >= NightStartHour

\* Shift.is_morning_shift
is_morning_shift(s) == HourOf(s.start) < MorningEndHour

\* HardSoftScore: a (hard, soft) pair; penalties lower it, rewards raise it
ZeroScore == [hard |-> 0, soft |-> 0]
ScoreAdd(a, b) == [hard |-> a.hard + b.hard, soft |-> a.soft + b.soft]

\* an ordering that lets the soft level decide before the hard level
ScoreCompare_SoftFirst(a, b) ==
  IF a.soft # b.soft THEN (IF a.soft > b.soft THEN 1 ELSE -1)
  ELSE IF a.hard # b.hard THEN (IF a.hard > b.hard THEN 1 ELSE -1)
  ELSE 0

\* HardSoftScore ordering: hard level first, soft level on a hard tie;
\* 1 when a is better than b, -1 when worse, 0 when equal
ScoreCompare(a, b) ==
  IF a.hard # b.hard THEN (IF a.hard > b.hard THEN 1 ELSE -1)
  ELSE IF a.soft # b.soft THEN (IF a.soft > b.soft THEN 1 ELSE -1)
  ELSE 0

\* the Employee object of the schedule with the given id
EmployeeById(emps, id) == emps[CHOOSE k \in DOMAIN emps : emps[k].id = id]

(* ------------------------ constraint_library.py ------------------------ *)
DefaultRestHours == 10
DefaultBalanceWeight == 100
DefaultPreferenceWeight == 50
DefaultNightsWeight == 50
DefaultMaxConsecutive == 2
DefaultFairWeight == 30

\* factory.for_each(Shift): the shifts of the schedule, by list position
ForEachShift(sh) == DOMAIN sh

\* one_shift_per_day joined on distinct ids instead of s1.id < s2.id
one_shift_per_day_BothOrders(sh, emps, c) ==
  Cardinality({ p \in ForEachShift(sh) \X ForEachShift(sh) :
                  /\ sh[p[1]].employee # None
                  /\ sh[p[1]].employee = sh[p[2]].employee
                  /\ DateOf(sh[p[1]].start) = DateOf(sh[p[2]].start)
                  /\ sh[p[1]].id # sh[p[2]].id })

\* hard: one_shift_per_day -- (s1, s2) joined on equal employee, equal
\* start date and s1.id < s2.id; ONE_HARD per match
one_shift_per_day(sh, emps, c) ==
  Cardinality({ p \in ForEachShift(sh) \X ForEachShift(sh) :
                  /\ sh[p[1]].employee # None
                  /\ sh[p[1]].employee = sh[p[2]].employee
                  /\ DateOf(sh[p[1]].start) = DateOf(sh[p[2]].start)
                  /\ IdLess(sh[p[1]].id, sh[p[2]].id) })

\* hard: no_night_then_morning(factory, rest_hours=10, **kwargs)
no_night_then_morning(sh, emps, c) ==
  LET rest_hours == KwArg(c, "rest_hours", DefaultRestHours)
  IN Cardinality({ p \in ForEachShift(sh) \X ForEachShift(sh) :
                  /\ sh[p[1]].employee # None
                  /\ is_night_shift(sh[p[1]])
                  /\ sh[p[1]].employee = sh[p[2]].employee
                  /\ sh[p[1]].end < sh[p[2]].start
                  /\ is_morning_shift(sh[p[2]])
                  /\ sh[p[2]].start - sh[p[1]].end < rest_hours })

\* hard: honor_unavailability
honor_unavailability(sh, emps, c) ==
  Cardinality({ i \in ForEachShift(sh) :
                  /\ sh[i].employee # None
                  /\ is_unavailable(EmployeeById(emps, sh[i].employee),
                                    sh[i].start, sh[i].end) })

\* honor_locked_assignments that overlooks unassigned locked shifts
honor_locked_assignments_AssignedOnly(sh, emps, c) ==
  Cardinality({ i \in ForEachShift(sh) :
                  /\ sh[i].locked_employee_id # None
                  /\ sh[i].employee # None
                  /\ sh[i].employee # sh[i].locked_employee_id })

\* hard: honor_locked_assignments
honor_locked_assignments(sh, emps, c) ==
  Cardinality({ i \in ForEachShift(sh) :
                  /\ sh[i].locked_employee_id # None
                  /\ (sh[i].employee = None
                      \/ sh[i].employee # sh[i].locked_employee_id) })

\* hard: required_skill -- Shift has no required_skill attribute, so
\* hasattr(s, 'required_skill') is false for every shift
required_skill(sh, emps, c) ==
  Cardinality({ i \in ForEachShift(sh) : "required_skill" \in DOMAIN sh[i] })

\* the employees that group_by(lambda s: s.employee, ...) yields: those of
\* the assigned shifts
GroupKeys(sh) == { sh[i].employee : i \in { j \in ForEachShift(sh) : sh[j].employee # None } }

ShiftsOf(sh, e) == { i \in ForEachShift(sh) : sh[i].employee = e }

TotalHours(sh, e) == SumOver(ShiftsOf(sh, e), [i \in ShiftsOf(sh, e) |-> sh[i].hours])

\* soft: balance_hours(factory, weight=100, **kwargs)
balance_hours(sh, emps, c) ==
  LET weight == KwArg(c, "weight", DefaultBalanceWeight)
  IN SumOver(GroupKeys(sh),
       [e \in GroupKeys(sh) |->
          (Abs(EmployeeById(emps, e).target_working_hours - TotalHours(sh, e)) * weight) \div 100])

\* soft (reward): honor_preferences(factory, weight=50, **kwargs)
honor_preferences(sh, emps, c) ==
  LET weight == KwArg(c, "weight", DefaultPreferenceWeight)
  IN weight * Cardinality({ i \in ForEachShift(sh) :
                  /\ sh[i].employee # None
                  /\ has_preference(EmployeeById(emps, sh[i].employee),
                                    sh[i].start, sh[i].end) })

\* soft: avoid_consecutive_nights(factory, weight=50, max_consecutive=2, **kwargs)
\* weight per (s1, s2) with both night shifts of one employee, s2 starting
\* on the day after s1's start date; max_consecutive is not read
avoid_consecutive_nights(sh, emps, c) ==
  LET weight == KwArg(c, "weight", DefaultNightsWeight)
      max_consecutive == KwArg(c, "max_consecutive", DefaultMaxConsecutive)
  IN weight * Cardinality({ p \in ForEachShift(sh) \X ForEachShift(sh) :
                  /\ sh[p[1]].employee # None
                  /\ is_night_shift(sh[p[1]])
                  /\ sh[p[1]].employee = sh[p[2]].employee
                  /\ DateOf(sh[p[1]].start) + 1 = DateOf(sh[p[2]].start)
                  /\ is_night_shift(sh[p[2]]) })

\* soft: fair_shift_distribution(factory, weight=30, **kwargs)
fair_shift_distribution(sh, emps, c) ==
  LET weight == KwArg(c, "weight", DefaultFairWeight)
  IN SumOver(GroupKeys(sh),
       [e \in GroupKeys(sh) |->
          (Cardinality(ShiftsOf(sh, e)) * Cardinality(ShiftsOf(sh, e)) * weight) \div 100])

\* registry keys
HARD_CONSTRAINTS ==
  {"one_shift_per_day", "no_night_then_morning", "honor_unavailability",
   "honor_locked_assignments", "required_skill"}

SOFT_CONSTRAINTS ==
  {"balance_hours", "honor_preferences", "avoid_consecutive_nights",
   "fair_shift_distribution"}

\* HARD_CONSTRAINTS[name](factory, **c) / SOFT_CONSTRAINTS[name](factory, **c):
\* the score impact of one built constraint on the schedule
ConstraintImpact(name, c, sh, emps) ==
  CASE name = "one_shift_per_day" ->
         [hard |-> 0 - one_shift_per_day(sh, emps, c), soft |-> 0]
    [] name = "no_night_then_morning" ->
         [hard |-> 0 - no_night_then_morning(sh, emps, c), soft |-> 0]
    [] name = "honor_unavailability" ->
         [hard |-> 0 - honor_unavailability(sh, emps, c), soft |-> 0]
    [] name = "honor_locked_assignments" ->
         [hard |-> 0 - honor_locked_assignments(sh, emps, c), soft |-> 0]
    [] name = "required_skill" ->
         [hard |-> 0 - required_skill(sh, emps, c), soft |-> 0]
    [] name = "balance_hours" ->
         [hard |-> 0, soft |-> 0 - balance_hours(sh, emps, c)]
    [] name = "honor_preferences" ->
         [hard |-> 0, soft |-> honor_preferences(sh, emps, c)]
    [] name = "avoid_consecutive_nights" ->
         [hard |-> 0, soft |-> 0 - avoid_consecutive_nights(sh, emps, c)]
    [] name = "fair_shift_distribution" ->
         [hard |-> 0, soft |-> 0 - fair_shift_distribution(sh, emps, c)]

Resolve_StopAtUnknown(list, registry) ==
  IF \E k \in DOMAIN list : DictGet(list[k], "name", None) \notin registry
  THEN <<>> ELSE list

\* the entries of a config list whose name is a key of the registry, in order
RECURSIVE Resolve(_, _)
Resolve(list, registry) ==
  IF list = <<>> THEN <<>>
  ELSE LET c == Head(list)
           name == DictGet(c, "name", None)
       IN (IF name \in registry THEN <<c>> ELSE <<>>) \o Resolve(Tail(list), registry)

\* build_constraint_provider(constraint_config) / define_constraints:
\* the list of built constraints, hard ones first
build_constraint_provider(constraint_config) ==
  LET hard_list == DictGet(constraint_config, "hard", <<>>)
      soft_list == DictGet(constraint_config, "soft", <<>>)
  IN Resolve(hard_list, HARD_CONSTRAINTS) \o Resolve(soft_list, SOFT_CONSTRAINTS)

\* per-constraint totals of the score director for the working schedule
MatchTotals(provider, sh, emps) ==
  [k \in DOMAIN provider |-> ConstraintImpact(provider[k].name, provider[k], sh, emps)]

RECURSIVE SumScores(_)
SumScores(seq) ==
  IF seq = <<>> THEN ZeroScore ELSE ScoreAdd(Head(seq), SumScores(Tail(seq)))

\* the score of a schedule: the sum of the impacts of the built constraints
CalculateScore(provider, sh, emps) == SumScores(MatchTotals(provider, sh, emps))

(* ----------------------------- json_utils.py --------------------------- *)
EmptyDict == <<>>

DefaultTargetWorkingHours == 160
DefaultShiftHours == 8

\* Optional[HardSoftScore]: <<>> is None, <<s>> is the score s
NoScore == <<>>

\* Employee(...) as parse_schedule builds it from one entry of "employees"
\* (the fields no constraint reads -- skills, contractedHours, owingHours,
\* paidAbsenceHours -- are left out of the record)
ParseEmployee(emp_data) ==
  [id |-> emp_data.id,
   name |-> DictGet(emp_data, "name", emp_data.id),
   target_working_hours |-> DictGet(emp_data, "targetWorkingHours", DefaultTargetWorkingHours),
   unavailable_time_spans |-> DictGet(emp_data, "unavailableTimeSpans", <<>>),
   preferred_time_spans |-> DictGet(emp_data, "preferredTimeSpans", <<>>),
   mentor_id |-> DictGet(emp_data, "mentorId", None)]

\* Shift(...) with the lock pre-assigned without the employee_lookup test
ParseShift_AssignsUnknown(shift_data, employee_lookup) ==
  LET locked == DictGet(shift_data, "lockedEmployeeId", None)
  IN [id |-> shift_data.id,
      code |-> DictGet(shift_data, "code", "M"),
      start |-> shift_data.start,
      end |-> shift_data.end,
      hours |-> DictGet(shift_data, "hours", DefaultShiftHours),
      locked_employee_id |-> locked,
      employee |-> locked]

\* Shift(...) as parse_schedule builds it, with the lock pre-assigned when
\* the locked id is truthy and a key of employee_lookup
ParseShift(shift_data, employee_lookup) ==
  LET locked == DictGet(shift_data, "lockedEmployeeId", None)
  IN [id |-> shift_data.id,
      code |-> DictGet(shift_data, "code", "M"),
      start |-> shift_data.start,
      end |-> shift_data.end,
      hours |-> DictGet(shift_data, "hours", DefaultShiftHours),
      locked_employee_id |-> locked,
      employee |-> IF locked # None /\ locked \in employee_lookup THEN locked ELSE None]

\* parse_schedule(data)
parse_schedule(d) ==
  LET emp_list == DictGet(d, "employees", <<>>)
      employees == [k \in DOMAIN emp_list |-> ParseEmployee(emp_list[k])]
      employee_lookup == { employees[k].id : k \in DOMAIN employees }
      shift_list == DictGet(d, "shifts", <<>>)
      shifts == [k \in DOMAIN shift_list |-> ParseShift(shift_list[k], employee_lookup)]
  IN [employees |-> employees,
      shifts |-> shifts,
      config |-> DictGet(d, "config", EmptyDict),
      constraint_config |-> DictGet(d, "constraintConfig", EmptyDict),
      score |-> NoScore]

\* sorted(idx, key=lambda s: (s.start, s.id)) over list positions
RECURSIVE SortedByStartId(_, _)
SortedByStartId(sh, idx) ==
  IF idx = {} THEN <<>>
  ELSE LET m == CHOOSE i \in idx : \A j \in idx \ {i} :
                  \/ sh[i].start < sh[j].start
                  \/ (sh[i].start = sh[j].start /\ ~IdLess(sh[j].id, sh[i].id))
       IN <<m>> \o SortedByStartId(sh, idx \ {m})

\* str(score): "<hard>hard/<soft>soft"
ScoreStr(s) == <<s.hard, "hard/", s.soft, "soft">>

format_output_LastShiftHours(sched) ==
  LET sh == sched.shifts
      emps == sched.employees
      order == SortedByStartId(sh, { i \in DOMAIN sh : sh[i].employee # None })
      schedule_list ==
        [k \in DOMAIN order |->
           [date |-> DateOf(sh[order[k]].start),
            employeeId |-> sh[order[k]].employee,
            employeeName |-> EmployeeById(emps, sh[order[k]].employee).name,
            shiftCode |-> sh[order[k]].code]]
      names == { EmployeeById(emps, sh[i].employee).name :
                   i \in { j \in DOMAIN sh : sh[j].employee # None } }
      hoursOf(n) == LET S == { i \in DOMAIN sh :
                                /\ sh[i].employee # None
                                /\ EmployeeById(emps, sh[i].employee).name = n }
                    IN sh[CHOOSE i \in S : \A j \in S : j <= i].hours
      assigned == Cardinality({ i \in DOMAIN sh : sh[i].employee # None })
  IN [status |-> "success",
      score |-> IF sched.score # NoScore THEN ScoreStr(sched.score[1])
                ELSE <<0, "hard/", 0, "soft">>,
      schedule |-> schedule_list,
      summary |-> [totalShifts |-> Len(sh),
                   assignedShifts |-> assigned,
                   unassignedShifts |-> Len(sh) - assigned,
                   employeeHours |-> [n \in names |-> hoursOf(n)]]]

format_output_ErrorOnInfeasible(sched) ==
  LET sh == sched.shifts
      emps == sched.employees
      order == SortedByStartId(sh, { i \in DOMAIN sh : sh[i].employee # None })
      schedule_list ==
        [k \in DOMAIN order |->
           [date |-> DateOf(sh[order[k]].start),
            employeeId |-> sh[order[k]].employee,
            employeeName |-> EmployeeById(emps, sh[order[k]].employee).name,
            shiftCode |-> sh[order[k]].code]]
      names == { EmployeeById(emps, sh[i].employee).name :
                   i \in { j \in DOMAIN sh : sh[j].employee # None } }
      hoursOf(n) == LET S == { i \in DOMAIN sh :
                                /\ sh[i].employee # None
                                /\ EmployeeById(emps, sh[i].employee).name = n }
                    IN SumOver(S, [i \in S |-> sh[i].hours])
      assigned == Cardinality({ i \in DOMAIN sh : sh[i].employee # None })
  IN [status |-> IF sched.score # NoScore /\ sched.score[1].hard < 0
                 THEN "error" ELSE "success",
      score |-> IF sched.score # NoScore THEN ScoreStr(sched.score[1])
                ELSE <<0, "hard/", 0, "soft">>,
      schedule |-> schedule_list,
      summary |-> [totalShifts |-> Len(sh),
                   assignedShifts |-> assigned,
                   unassignedShifts |-> Len(sh) - assigned,
                   employeeHours |-> [n \in names |-> hoursOf(n)]]]

\* format_output(schedule)
format_output(sched) ==
  LET sh == sched.shifts
      emps == sched.employees
      order == SortedByStartId(sh, { i \in DOMAIN sh : sh[i].employee # None })
      schedule_list ==
        [k \in DOMAIN order |->
           [date |-> DateOf(sh[order[k]].start),
            employeeId |-> sh[order[k]].employee,
            employeeName |-> EmployeeById(emps, sh[order[k]].employee).name,
            shiftCode |-> sh[order[k]].code]]
      names == { EmployeeById(emps, sh[i].employee).name :
                   i \in { j \in DOMAIN sh : sh[j].employee # None } }
      hoursOf(n) == LET S == { i \in DOMAIN sh :
                                /\ sh[i].employee # None
                                /\ EmployeeById(emps, sh[i].employee).name = n }
                    IN SumOver(S, [i \in S |-> sh[i].hours])
      assigned == Cardinality({ i \in DOMAIN sh : sh[i].employee # None })
  IN [status |-> "success",
      score |-> IF sched.score # NoScore THEN ScoreStr(sched.score[1])
                ELSE <<0, "hard/", 0, "soft">>,
      schedule |-> schedule_list,
      summary |-> [totalShifts |-> Len(sh),
                   assignedShifts |-> assigned,
                   unassignedShifts |-> Len(sh) - assigned,
                   employeeHours |-> [n \in names |-> hoursOf(n)]]]

(* ------------------------------- solver.py ----------------------------- *)
\* the configuration solve_from_dict falls back to when the input has no
\* "constraintConfig" key
DefaultConstraintConfig ==
  [hard |-> << [name |-> "one_shift_per_day"], [name |-> "honor_unavailability"] >>,
   soft |-> << [name |-> "balance_hours", weight |-> 100] >>]

\* constraint_config = data.get("constraintConfig", {...})
SolveConstraintConfig(d) == DictGet(d, "constraintConfig", DefaultConstraintConfig)

(* --------------------------- problem instances ------------------------- *)
\* shift codes of the rota: start hour, end hour (from midnight of the
\* start day) and paid hours
ShiftCodes == {"M", "E", "N"}
CodeStart(code) == CASE code = "M" -> 7 [] code = "E" -> 15 [] code = "N" -> 21
CodeEnd(code) == CASE code = "M" -> 15 [] code = "E" -> 23 [] code = "N" -> 29
CodeHours(code) == CASE code = "M" -> 8 [] code = "E" -> 8 [] code = "N" -> 8

Grid == (0 .. MaxDay) \X ShiftCodes

\* every rota starts with the morning shift of its first day
FirstCell == <<0, "M">>

ShiftData(cell) ==
  [id |-> cell, code |-> cell[2],
   start |-> 24 * cell[1] + CodeStart(cell[2]),
   end |-> 24 * cell[1] + CodeEnd(cell[2]),
   hours |-> CodeHours(cell[2])]

RECURSIVE ShiftList(_)
ShiftList(cells) ==
  IF cells = {} THEN <<>>
  ELSE LET m == CHOOSE x \in cells : \A y \in cells \ {x} :
                  x[1] < y[1] \/ (x[1] = y[1] /\ CodeStart(x[2]) < CodeStart(y[2]))
       IN <<ShiftData(m)>> \o ShiftList(cells \ {m})

\* the first shift of the list carries the lock, when there is one
WithLock(list, lock) ==
  IF lock = None \/ list = <<>> THEN list
  ELSE [list EXCEPT ![1] = [id |-> list[1].id, code |-> list[1].code,
                            start |-> list[1].start, end |-> list[1].end,
                            hours |-> list[1].hours, lockedEmployeeId |-> lock]]

LockChoices == {None, "E1", "E9"}

\* "lockedAssignments" of the input schema: empty, or one entry that names
\* the first shift of the list by its date and shift code
LockedAssignmentChoices(list) ==
  { <<>>,
    << [employeeId |-> "E1", date |-> DateOf(list[1].start), shiftCode |-> list[1].code] >> }

\* unavailability of E1: none, the whole of day 0, or exactly the span of
\* the first shift
UnavailableChoices ==
  { <<>>, << [start |-> 0, end |-> 24] >>,
    << [start |-> ShiftData(FirstCell).start, end |-> ShiftData(FirstCell).end] >> }

EmployeeData(un) ==
  << [id |-> "E1", name |-> "Ann", targetWorkingHours |-> 8,
      unavailableTimeSpans |-> un, preferredTimeSpans |-> <<>>, mentorId |-> "E2"],
     [id |-> "E2", name |-> "Bob", targetWorkingHours |-> 16,
      unavailableTimeSpans |-> <<>>,
      preferredTimeSpans |-> << [start |-> 0, end |-> 12] >>] >>

\* the constraint lists the data-interpreter task of crew.py asks for
CrewConstraints ==
  [hard |-> << [name |-> "one_shift_per_day"],
               [name |-> "no_night_then_morning", restHours |-> 12],
               [name |-> "honor_unavailability"],
               [name |-> "honor_locked_assignments"],
               [name |-> "minimum_coverage", value |-> 1] >>,
   soft |-> << [name |-> "balance_hours", weight |-> 10],
               [name |-> "honor_preferences", weight |-> 5],
               [name |-> "pair_trainees", weight |-> 7],
               [name |-> "avoid_consecutive_nights", maxConsecutive |-> 2, weight |-> 8] >>]

AltConstraints ==
  [hard |-> << [name |-> "no_night_then_morning", restHours |-> 2],
               [name |-> "honor_locked_assignments"] >>,
   soft |-> << [name |-> "avoid_consecutive_nights", maxConsecutive |-> 1, weight |-> 50] >>]

ConstraintChoices == {CrewConstraints, AltConstraints}

\* the key the constraint lists are stored under: "constraints" is the key
\* of the input schema, "constraintConfig" the key solver.py reads
ConstraintKeys == {"constraints", "constraintConfig"}

ProblemConfig == [minNursesPerShift |-> 1]

InputData(cells, lock, la, un, key, cc) ==
  LET base == [employees |-> EmployeeData(un),
               shifts |-> WithLock(ShiftList(cells), lock),
               config |-> ProblemConfig,
               lockedAssignments |-> la]
  IN [k \in DOMAIN base \cup {key} |-> IF k = key THEN cc ELSE base[k]]

EmptySchedule ==
  [employees |-> <<>>, shifts |-> <<>>, config |-> EmptyDict,
   constraint_config |-> EmptyDict, score |-> NoScore]

(* ------------------------------- behaviour ----------------------------- *)
\* the solver of solver.py is the external one: no engine of the design runs
NoEngine == [state |-> "None", queue |-> <<>>, visited |-> <<>>, last |-> <<>>, plateau |-> 0]

Init ==
  /\ pc = "input"
  /\ engine = NoEngine
  /\ \E cells \in SUBSET Grid, lock \in LockChoices, un \in UnavailableChoices,
        key \in ConstraintKeys, cc \in ConstraintChoices :
        /\ Cardinality(cells) = NumShifts
        /\ FirstCell \in cells
        /\ \E la \in LockedAssignmentChoices(ShiftList(cells)) :
             /\ lock = None \/ la = <<>>
             /\ key = "constraints" => cc = CrewConstraints
             /\ un # <<>> => (key = "constraintConfig" /\ cc = CrewConstraints)
             /\ (un # <<>> /\ un[1].start = ShiftData(FirstCell).start) => lock = "E1"
             /\ data = InputData(cells, lock, la, un, key, cc)
  /\ schedule = EmptySchedule
  /\ constraint_provider = <<>>
  /\ constraintMatchTotals = <<>>
  /\ best = EmptySchedule
  /\ output = EmptyDict
  /\ log = <<>>
  /\ spent = FALSE

\* solve_from_dict: schedule = parse_schedule(data), and the first print
ParseSchedule ==
  /\ pc = "input"
  /\ schedule' = parse_schedule(data)
  /\ log' = Append(log, <<"Solving", Len(schedule'.employees), Len(schedule'.shifts)>>)
  /\ pc' = "parsed"
  /\ UNCHANGED <<engine, data, constraint_provider, constraintMatchTotals, best, output, spent>>

\* solve_from_dict: constraint_provider = build_constraint_provider(constraint_config)
BuildConstraintProvider ==
  /\ pc = "parsed"
  /\ constraint_provider' = build_constraint_provider(SolveConstraintConfig(data))
  /\ pc' = "built"
  /\ UNCHANGED <<engine, data, schedule, constraintMatchTotals, best, output, log, spent>>

\* the schedule with the given assignments, scored by the built constraints
Scored(sched, sh) ==
  [sched EXCEPT !.shifts = sh,
                !.score = <<CalculateScore(constraint_provider, sh, sched.employees)>>]

\* solver.solve(schedule) starts, after the second print: the working
\* schedule is scored and is the first best solution, and the clock of the
\* spent limit starts
StartSolving ==
  /\ pc = "built"
  /\ log' = Append(log, <<"Running Timefold solver...">>)
  /\ spent' = FALSE
  /\ schedule' = Scored(schedule, schedule.shifts)
  /\ constraintMatchTotals' = MatchTotals(constraint_provider, schedule.shifts, schedule.employees)
  /\ best' = schedule'
  /\ pc' = "solving"
  /\ UNCHANGED <<engine, data, constraint_provider, output>>

\* the value range of Shift.employee: the employees of the schedule
ValueRange(sched) == { sched.employees[k].id : k \in DOMAIN sched.employees }

ChangeMove_ClearsLock(i, e) ==
  /\ pc = "solving"
  /\ ~spent
  /\ schedule.shifts[i].employee # e
  /\ LET sh == [schedule.shifts EXCEPT ![i].employee = e, ![i].locked_employee_id = None]
     IN /\ constraintMatchTotals' = MatchTotals(constraint_provider, sh, schedule.employees)
        /\ schedule' = [schedule EXCEPT !.shifts = sh,
                                        !.score = <<SumScores(constraintMatchTotals')>>]
        /\ best' = IF ScoreCompare(schedule'.score[1], best.score[1]) > 0
                   THEN schedule' ELSE best
  /\ UNCHANGED <<engine, pc, data, constraint_provider, output, log, spent>>

ChangeMove_StaleScore(i, e) ==
  /\ pc = "solving"
  /\ ~spent
  /\ schedule.shifts[i].employee # e
  /\ LET sh == [schedule.shifts EXCEPT ![i].employee = e]
     IN /\ constraintMatchTotals' = constraintMatchTotals
        /\ schedule' = [schedule EXCEPT !.shifts = sh]
        /\ best' = IF ScoreCompare(schedule'.score[1], best.score[1]) > 0
                   THEN schedule' ELSE best
  /\ UNCHANGED <<engine, pc, data, constraint_provider, output, log, spent>>

ChangeMove_BestFollowsWorking(i, e) ==
  /\ pc = "solving"
  /\ ~spent
  /\ schedule.shifts[i].employee # e
  /\ LET sh == [schedule.shifts EXCEPT ![i].employee = e]
     IN /\ constraintMatchTotals' = MatchTotals(constraint_provider, sh, schedule.employees)
        /\ schedule' = [schedule EXCEPT !.shifts = sh,
                                        !.score = <<SumScores(constraintMatchTotals')>>]
        /\ best' = schedule'
  /\ UNCHANGED <<engine, pc, data, constraint_provider, output, log, spent>>

ChangeMove_IgnoresLimit(i, e) ==
  /\ pc = "solving"
  /\ schedule.shifts[i].employee # e
  /\ LET sh == [schedule.shifts EXCEPT ![i].employee = e]
     IN /\ constraintMatchTotals' = MatchTotals(constraint_provider, sh, schedule.employees)
        /\ schedule' = [schedule EXCEPT !.shifts = sh,
                                        !.score = <<SumScores(constraintMatchTotals')>>]
        /\ best' = IF ScoreCompare(schedule'.score[1], best.score[1]) > 0
                   THEN schedule' ELSE best
  /\ UNCHANGED <<engine, pc, data, constraint_provider, output, log, spent>>

\* one solver step, taken while the spent limit is not reached: the planning
\* variable of one shift is set to a value of its range, the schedule is
\* re-scored, and the best solution is replaced when the new score is better
ChangeMove(i, e) ==
  /\ pc = "solving"
  /\ ~spent
  /\ schedule.shifts[i].employee # e
  /\ LET sh == [schedule.shifts EXCEPT ![i].employee = e]
     IN /\ constraintMatchTotals' = MatchTotals(constraint_provider, sh, schedule.employees)
        /\ schedule' = [schedule EXCEPT !.shifts = sh,
                                        !.score = <<SumScores(constraintMatchTotals')>>]
        /\ best' = IF ScoreCompare(schedule'.score[1], best.score[1]) > 0
                   THEN schedule' ELSE best
  /\ UNCHANGED <<engine, pc, data, constraint_provider, output, log, spent>>

\* TerminationConfig(spent_limit=...): the time spent solving reaches the
\* limit
TimeUp ==
  /\ pc = "solving"
  /\ ~spent
  /\ spent' = TRUE
  /\ UNCHANGED <<engine, pc, data, schedule, constraint_provider, constraintMatchTotals, best,
                 output, log>>

Terminate_ReturnsWorking ==
  /\ pc = "solving"
  /\ spent
  /\ log' = Append(log, <<"Solved! Score:", ScoreStr(schedule.score[1])>>)
  /\ output' = format_output(schedule)
  /\ pc' = "returned"
  /\ UNCHANGED <<engine, data, schedule, constraint_provider, constraintMatchTotals, best, spent>>

\* the solver finds the spent limit reached at its next check: solver.solve
\* returns the best solution, and solve_from_dict prints its score and
\* returns format_output(solution)
Terminate ==
  /\ pc = "solving"
  /\ spent
  /\ log' = Append(log, <<"Solved! Score:", ScoreStr(best.score[1])>>)
  /\ output' = format_output(best)
  /\ pc' = "returned"
  /\ UNCHANGED <<engine, data, schedule, constraint_provider, constraintMatchTotals, best, spent>>

Next ==
  \/ ParseSchedule
  \/ BuildConstraintProvider
  \/ StartSolving
  \/ \E i \in DOMAIN schedule.shifts, e \in ValueRange(schedule) : ChangeMove(i, e)
  \/ TimeUp
  \/ Terminate

Spec == Init /\ [][Next]_vars

\* the solves of the rotas whose input carries the crew's constraint lists
\* under "constraintConfig", a day of unavailability and the first shift
\* locked to the unavailable employee
TimedInit ==
  /\ Init
  /\ SolveConstraintConfig(data) = CrewConstraints
  /\ data.lockedAssignments = <<>>
  /\ data.employees[1].unavailableTimeSpans = << [start |-> 0, end |-> 24] >>
  /\ DictGet(data.shifts[1], "lockedEmployeeId", None) = "E1"

\* such a solve with its scheduling: the clock of the spent limit runs while
\* the solver steps, and the straight-line code of solve_from_dict and the
\* solver's termination check are not suspended for ever
FairSpec ==
  /\ TimedInit
  /\ [][Next]_vars
  /\ WF_vars(ParseSchedule)
  /\ WF_vars(BuildConstraintProvider)
  /\ WF_vars(StartSolving)
  /\ WF_vars(TimeUp)
  /\ WF_vars(Terminate)

(* ------------------------------- properties ---------------------------- *)
Scoring == pc \in {"solving", "returned"}

\* positions of the built constraints with the given name
Active(name) == { k \in DOMAIN constraint_provider : constraint_provider[k].name = name }

HardPenalty(sched) == 0 - sched.score[1].hard
SoftPenalty(sched) == 0 - sched.score[1].soft

Sign(x) == IF x > 0 THEN 1 ELSE IF x < 0 THEN -1 ELSE 0

C2_HonorUnavailability ==
  Scoring =>
    \A k \in Active("honor_unavailability") :
      0 - constraintMatchTotals[k].hard =
        Cardinality({ i \in DOMAIN schedule.shifts :
          /\ schedule.shifts[i].employee # None
          /\ \E e \in DOMAIN schedule.employees :
               /\ schedule.employees[e].id = schedule.shifts[i].employee
               /\ \E u \in DOMAIN schedule.employees[e].unavailable_time_spans :
                    LET ts == schedule.employees[e].unavailable_time_spans[u]
                    IN /\ ts.start < schedule.shifts[i].end
                       /\ schedule.shifts[i].start < ts.end })

\* an unavailable employee holds a shift while another shift on the
\* unavailable day is unassigned, and the penalty is counted
C2_Witness ==
  /\ Scoring
  /\ \E k \in Active("honor_unavailability") : constraintMatchTotals[k].hard = -1
  /\ \E i \in DOMAIN schedule.shifts :
       schedule.shifts[i].employee = None /\ schedule.shifts[i].end <= 24

SameEmployeeSameDate(sh, i, j) ==
  /\ sh[i].employee # None
  /\ sh[i].employee = sh[j].employee
  /\ sh[i].start \div 24 = sh[j].start \div 24

\* C3: the hard penalty of one_shift_per_day is the number of unordered
\* pairs of distinct shifts with the same assigned employee and the same
\* start date; and a returned schedule whose penalty is 0 lists no two
\* assignments of one employee on one date.
C3_OneShiftPerDay ==
  /\ Scoring =>
       \A k \in Active("one_shift_per_day") :
         0 - constraintMatchTotals[k].hard =
           Cardinality({ S \in SUBSET (DOMAIN schedule.shifts) :
             /\ Cardinality(S) = 2
             /\ \E i \in S, j \in S :
                  i # j /\ SameEmployeeSameDate(schedule.shifts, i, j) })
  /\ pc = "returned" =>
       \A k \in Active("one_shift_per_day") :
         one_shift_per_day(best.shifts, best.employees, constraint_provider[k]) = 0
           => \A a \in DOMAIN output.schedule, b \in DOMAIN output.schedule :
                a # b => ~ /\ output.schedule[a].employeeId = output.schedule[b].employeeId
                           /\ output.schedule[a].date = output.schedule[b].date

\* one employee holds three shifts of one day: three pairs are counted
C3_Witness ==
  /\ Scoring
  /\ \E k \in Active("one_shift_per_day") : constraintMatchTotals[k].hard = -3

\* C4: the hard penalty of honor_locked_assignments is the number of locked
\* shifts that are unassigned or assigned to another employee than the
\* locked one; and when it is 0 for the returned schedule every locked
\* shift is assigned to its locked employee.
C4_HonorLocked ==
  /\ Scoring =>
       \A k \in Active("honor_locked_assignments") :
         0 - constraintMatchTotals[k].hard =
           Cardinality({ i \in DOMAIN schedule.shifts :
             /\ schedule.shifts[i].locked_employee_id # None
             /\ ~ (schedule.shifts[i].employee = schedule.shifts[i].locked_employee_id) })
  /\ pc = "returned" =>
       \A k \in Active("honor_locked_assignments") :
         honor_locked_assignments(best.shifts, best.employees, constraint_provider[k]) = 0
           => \A i \in DOMAIN best.shifts :
                best.shifts[i].locked_employee_id # None
                  => best.shifts[i].employee = best.shifts[i].locked_employee_id

\* a shift locked to E1 is held by E2 and the violation is counted
C4_Witness ==
  /\ Scoring
  /\ \E k \in Active("honor_locked_assignments") : constraintMatchTotals[k].hard = -1
  /\ \E i \in DOMAIN schedule.shifts :
       schedule.shifts[i].locked_employee_id = "E1" /\ schedule.shifts[i].employee = "E2"

\* the entries listed under the configuration the solve reads
ListedHard(name) ==
  LET l == DictGet(SolveConstraintConfig(data), "hard", <<>>)
  IN { k \in DOMAIN l : l[k].name = name }
ListedSoft(name) ==
  LET l == DictGet(SolveConstraintConfig(data), "soft", <<>>)
  IN { k \in DOMAIN l : l[k].name = name }

\* the sums of the hard and soft totals of the built constraints
ActiveHardPenalty ==
  SumOver(DOMAIN constraintMatchTotals,
          [k \in DOMAIN constraintMatchTotals |-> 0 - constraintMatchTotals[k].hard])
ActiveSoftScore ==
  SumOver(DOMAIN constraintMatchTotals,
          [k \in DOMAIN constraintMatchTotals |-> constraintMatchTotals[k].soft])

\* C5: with restHours R in the entry of no_night_then_morning, its hard
\* penalty is the number of ordered pairs (s1, s2) of one employee with s1 a
\* night shift, s2 not a night shift and s1.end <= s2.start < s1.end + R.
C5_NoNightThenMorning ==
  Scoring =>
    \A k \in Active("no_night_then_morning") :
      LET R == constraint_provider[k].restHours
          sh == schedule.shifts
      IN 0 - constraintMatchTotals[k].hard =
           Cardinality({ p \in (DOMAIN sh) \X (DOMAIN sh) :
             /\ sh[p[1]].employee # None
             /\ sh[p[1]].employee = sh[p[2]].employee
             /\ is_night_shift(sh[p[1]])
             /\ ~ is_night_shift(sh[p[2]])
             /\ sh[p[2]].start >= sh[p[1]].end
             /\ sh[p[2]].start < sh[p[1]].end + R })

\* C6: with minimum_coverage listed among the hard constraints, every shift
\* slot with fewer distinct assigned employees than minNursesPerShift adds
\* the shortfall to the hard penalty (an unassigned slot adds 1 when the
\* minimum is 1), on top of the other hard constraints.
C6_MinimumCoverage ==
  (Scoring /\ ListedHard("minimum_coverage") # {}) =>
    LET sh == schedule.shifts
        min == schedule.config.minNursesPerShift
        actual(i) == Cardinality({ sh[j].employee :
                        j \in { x \in DOMAIN sh : sh[x].id = sh[i].id /\ sh[x].employee # None } })
        shortfall(i) == IF actual(i) < min THEN min - actual(i) ELSE 0
    IN HardPenalty(schedule) =
         ActiveHardPenalty + SumOver(DOMAIN sh, [i \in DOMAIN sh |-> shortfall(i)])

\* C7: with weight w the soft penalty of balance_hours is w times the sum,
\* over all employees of the schedule (idle ones included), of
\* abs(targetWorkingHours - assigned hours).
C7_BalanceHours ==
  Scoring =>
    \A k \in Active("balance_hours") :
      LET w == constraint_provider[k].weight
          sh == schedule.shifts
          emps == schedule.employees
          assigned(e) == LET S == { i \in DOMAIN sh : sh[i].employee = emps[e].id }
                         IN SumOver(S, [i \in S |-> sh[i].hours])
          dev(e) == IF emps[e].target_working_hours >= assigned(e)
                    THEN emps[e].target_working_hours - assigned(e)
                    ELSE assigned(e) - emps[e].target_working_hours
      IN 0 - constraintMatchTotals[k].soft =
           w * SumOver(DOMAIN emps, [e \in DOMAIN emps |-> dev(e)])

\* C8: with weight w and maximum M the soft penalty of
\* avoid_consecutive_nights is w times the sum, over every employee's
\* maximal runs of night shifts on consecutive days, of max(0, length - M).
C8_AvoidConsecutiveNights ==
  Scoring =>
    \A k \in Active("avoid_consecutive_nights") :
      LET w == constraint_provider[k].weight
          M == constraint_provider[k].maxConsecutive
          sh == schedule.shifts
          emps == schedule.employees
          days == { sh[i].start \div 24 : i \in DOMAIN sh }
          nights(e) == { sh[i].start \div 24 :
                           i \in { j \in DOMAIN sh : sh[j].employee = emps[e].id
                                                     /\ is_night_shift(sh[j]) } }
          runs(e) == { r \in days \X days :
                         /\ r[1] <= r[2]
                         /\ \A d \in r[1] .. r[2] : d \in nights(e)
                         /\ (r[1] - 1) \notin nights(e)
                         /\ (r[2] + 1) \notin nights(e) }
          excess(r) == IF r[2] - r[1] + 1 > M THEN r[2] - r[1] + 1 - M ELSE 0
          ofEmployee(e) == SumOver(runs(e), [r \in runs(e) |-> excess(r)])
      IN 0 - constraintMatchTotals[k].soft =
           w * SumOver(DOMAIN emps, [e \in DOMAIN emps |-> ofEmployee(e)])

\* C9: with pair_trainees listed with weight w, the soft score holds a
\* reward of w for every pair of time-overlapping shifts of which one is
\* assigned to an employee with mentorId m and the other to employee m.
C9_PairTrainees ==
  (Scoring /\ ListedSoft("pair_trainees") # {}) =>
    \A k \in ListedSoft("pair_trainees") :
      LET w == SolveConstraintConfig(data).soft[k].weight
          sh == schedule.shifts
          emps == schedule.employees
          pairs == { p \in (DOMAIN sh) \X (DOMAIN sh) :
                       /\ sh[p[1]].employee # None
                       /\ sh[p[2]].employee # None
                       /\ \E e \in DOMAIN emps :
                            /\ emps[e].id = sh[p[1]].employee
                            /\ emps[e].mentor_id # None
                            /\ emps[e].mentor_id = sh[p[2]].employee
                       /\ sh[p[1]].start < sh[p[2]].end
                       /\ sh[p[2]].start < sh[p[1]].end }
      IN schedule.score[1].soft = ActiveSoftScore + w * Cardinality(pairs)

\* the constraint lists of the input problem: under "constraints" in the
\* input schema
InputConstraints == IF "constraints" \in DOMAIN data THEN data.constraints
                    ELSE data.constraintConfig

\* C10: the constraints evaluated during a solve are exactly the recognized
\* entries listed under the problem's hard and soft constraint lists, and
\* each is evaluated with the parameters of its entry (restHours for
\* no_night_then_morning, maxConsecutive for avoid_consecutive_nights).
C10_ConfiguredConstraints ==
  pc \notin {"input", "parsed"} =>
    LET listed == [k \in DOMAIN InputConstraints.hard |-> InputConstraints.hard[k]]
                    \o InputConstraints.soft
        recognized == { k \in DOMAIN listed :
                          listed[k].name \in HARD_CONSTRAINTS \cup SOFT_CONSTRAINTS }
    IN /\ { constraint_provider[k] : k \in DOMAIN constraint_provider }
            = { listed[k] : k \in recognized }
       /\ \A k \in Active("no_night_then_morning") :
            KwArg(constraint_provider[k], "rest_hours", DefaultRestHours)
              = constraint_provider[k].restHours
       /\ \A k \in Active("avoid_consecutive_nights") :
            KwArg(constraint_provider[k], "max_consecutive", DefaultMaxConsecutive)
              = constraint_provider[k].maxConsecutive

\* an entry whose name is a key of one of the registries
Recognized(c) == DictGet(c, "name", None) \in HARD_CONSTRAINTS \cup SOFT_CONSTRAINTS

\* the configuration the solve reads, and the same without the entries of
\* unknown name
ReadConfig == SolveConstraintConfig(data)
ReadConfigCleaned ==
  [hard |-> SelectSeq(DictGet(ReadConfig, "hard", <<>>), Recognized),
   soft |-> SelectSeq(DictGet(ReadConfig, "soft", <<>>), Recognized)]
UnknownListed ==
  { c.name : c \in { ReadConfig.hard[k] : k \in DOMAIN ReadConfig.hard }
                     \cup { ReadConfig.soft[k] : k \in DOMAIN ReadConfig.soft } }
    \ (HARD_CONSTRAINTS \cup SOFT_CONSTRAINTS)

\* C11: a configuration that lists names the library does not know is
\* accepted: building the constraints never fails, the built constraints
\* are those of the same configuration with the unknown names removed, in
\* the same order, the score of every working schedule is the sum of the
\* totals of exactly those constraints, and the score of the returned
\* schedule is the one that configuration gives.
C11_UnknownNamesIgnored ==
  /\ pc = "parsed" => ENABLED BuildConstraintProvider
  /\ pc \notin {"input", "parsed"} =>
       constraint_provider = build_constraint_provider(ReadConfigCleaned)
  /\ Scoring =>
       /\ DOMAIN constraintMatchTotals = DOMAIN build_constraint_provider(ReadConfigCleaned)
       /\ schedule.score[1] = SumScores(constraintMatchTotals)
  /\ pc = "returned" =>
       best.score[1] = CalculateScore(build_constraint_provider(ReadConfigCleaned),
                                      best.shifts, best.employees)

\* a schedule is returned for a configuration that lists two unknown names
\* between known ones
C11_Witness ==
  /\ pc = "returned"
  /\ Cardinality(UnknownListed) = 2
  /\ Len(constraint_provider) = Len(ReadConfig.hard) + Len(ReadConfig.soft) - 2
  /\ output.status = "success"

\* C12: when the schedule is returned, every unknown name the read
\* configuration lists has a ConfigurationWarning naming it, in the log or
\* in the warnings of the result.
C12_UnknownNamesWarned ==
  pc = "returned" =>
    \A n \in UnknownListed :
      \/ \E k \in DOMAIN log : log[k][1] = "ConfigurationWarning" /\ log[k][2] = n
      \/ \E k \in DOMAIN DictGet(output, "warnings", <<>>) : output.warnings[k] = n

\* ids of the employees and of the shifts of the input
InputEmployeeIds == { data.employees[k].id : k \in DOMAIN data.employees }
InputShiftKeys ==
  { <<DateOf(data.shifts[k].start), data.shifts[k].code>> : k \in DOMAIN data.shifts }

\* the input holds a lock on an employee or shift that does not exist, or a
\* shift that does not end after its start
InvalidInput ==
  \/ \E k \in DOMAIN data.shifts :
       \/ DictGet(data.shifts[k], "lockedEmployeeId", None) \notin InputEmployeeIds \cup {None}
       \/ data.shifts[k].end <= data.shifts[k].start
  \/ \E k \in DOMAIN data.lockedAssignments :
       \/ data.lockedAssignments[k].employeeId \notin InputEmployeeIds
       \/ <<data.lockedAssignments[k].date, data.lockedAssignments[k].shiftCode>>
            \notin InputShiftKeys

\* C13: an invalid input is rejected before the search starts and before
\* any shift is assigned: the solve never reaches the solver and never
\* returns a schedule for it.
C13_InvalidInputRejected ==
  InvalidInput =>
    /\ pc \notin {"solving", "returned"}
    /\ output = EmptyDict
    /\ \A i \in DOMAIN schedule.shifts : schedule.shifts[i].employee = None

\* C14: once the input is parsed and before the solver starts, every entry
\* of lockedAssignments whose employee and shift exist has its shift
\* assigned to, and locked to, the entry's employee.
C14_LockedAssignmentsApplied ==
  pc \in {"parsed", "built"} =>
    \A k \in DOMAIN data.lockedAssignments :
      LET a == data.lockedAssignments[k]
      IN (a.employeeId \in InputEmployeeIds /\ <<a.date, a.shiftCode>> \in InputShiftKeys) =>
           \A i \in DOMAIN schedule.shifts :
             (DateOf(schedule.shifts[i].start) = a.date /\ schedule.shifts[i].code = a.shiftCode)
               => /\ schedule.shifts[i].employee = a.employeeId
                  /\ schedule.shifts[i].locked_employee_id = a.employeeId

\* C15: a shift that parsing pre-assigned to its locked employee keeps that
\* employee in the working and in the best schedule for the whole solve:
\* no solver step changes it.
C15_LockedShiftsPinned ==
  Scoring =>
    \A i \in DOMAIN schedule.shifts :
      LET parsed == parse_schedule(data).shifts[i]
      IN (parsed.locked_employee_id # None /\ parsed.employee # None) =>
           /\ schedule.shifts[i].employee = parsed.employee
           /\ best.shifts[i].employee = parsed.employee

AssignmentsOf(sched) ==
  { <<DateOf(sched.shifts[i].start), sched.shifts[i].code, sched.shifts[i].employee>> :
      i \in { j \in DOMAIN sched.shifts : sched.shifts[j].employee # None } }
AssignmentsListed(out) ==
  { <<out.schedule[k].date, out.schedule[k].shiftCode, out.schedule[k].employeeId>> :
      k \in DOMAIN out.schedule }

C18_InfeasibleStillReturned ==
  (pc = "returned" /\ best.score[1].hard < 0) =>
       /\ output.status = "success"
       /\ output.score[1] = best.score[1].hard
       /\ output.score[3] = best.score[1].soft
       /\ AssignmentsListed(output) = AssignmentsOf(best)

\* a schedule with every shift assigned that still breaks a hard constraint
\* is returned
C18_Witness ==
  /\ pc = "returned"
  /\ best.score[1].hard < 0
  /\ Len(output.schedule) = Len(best.shifts)
  /\ output.status = "success"
  /\ output.score[1] = best.score[1].hard
  /\ output.schedule # <<>>

\* C19: with honor_unavailability and honor_locked_assignments both built,
\* a shift locked to an employee who is unavailable for exactly the shift's
\* span is returned assigned to that employee, with exactly one violation
\* of honor_unavailability and none of honor_locked_assignments.
C19_LockedWhileUnavailable ==
  (/\ pc = "returned"
   /\ Active("honor_unavailability") # {}
   /\ Active("honor_locked_assignments") # {}) =>
    \A i \in DOMAIN best.shifts :
      LET s == best.shifts[i]
          totals == MatchTotals(constraint_provider, best.shifts, best.employees)
      IN (/\ s.locked_employee_id \in ValueRange(best)
          /\ \E u \in DOMAIN EmployeeById(best.employees, s.locked_employee_id).unavailable_time_spans :
               LET ts == EmployeeById(best.employees, s.locked_employee_id).unavailable_time_spans[u]
               IN ts.start = s.start /\ ts.end = s.end) =>
           /\ s.employee = s.locked_employee_id
           /\ \A k \in Active("honor_unavailability") : totals[k].hard = -1
           /\ \A k \in Active("honor_locked_assignments") : totals[k].hard = 0
           /\ AssignmentsListed(output) = AssignmentsOf(best)

\* C20: in the returned output, totalShifts is the number of shifts of the
\* problem, assignedShifts and unassignedShifts add up to it, the schedule
\* list has exactly one entry for every assigned shift and none for an
\* unassigned one, and the values of employeeHours add up to the hours of
\* the assigned shifts.
C20_OutputSummary ==
  pc = "returned" =>
    LET sh == best.shifts
        assignedIdx == { i \in DOMAIN sh : sh[i].employee # None }
        entriesOf(i) == { k \in DOMAIN output.schedule :
                            /\ output.schedule[k].date = DateOf(sh[i].start)
                            /\ output.schedule[k].shiftCode = sh[i].code }
        eh == output.summary.employeeHours
    IN /\ output.summary.totalShifts = Len(data.shifts)
       /\ output.summary.assignedShifts + output.summary.unassignedShifts
            = output.summary.totalShifts
       /\ output.summary.assignedShifts = Cardinality(assignedIdx)
       /\ Len(output.schedule) = Cardinality(assignedIdx)
       /\ \A i \in DOMAIN sh :
            Cardinality(entriesOf(i)) = IF i \in assignedIdx THEN 1 ELSE 0
       /\ \A i \in assignedIdx :
            \A k \in entriesOf(i) : output.schedule[k].employeeId = sh[i].employee
       /\ SumOver(DOMAIN eh, eh) = SumOver(assignedIdx, [i \in assignedIdx |-> sh[i].hours])

\* the returned schedule has an unassigned shift, and an employee who holds
\* two shifts, whose hours are added up
C20_Witness ==
  /\ pc = "returned"
  /\ output.summary.unassignedShifts = 1
  /\ output.summary.assignedShifts = 2
  /\ \E n \in DOMAIN output.summary.employeeHours : output.summary.employeeHours[n] = 16

C25_AssignedFromEmployees ==
  /\ \A i \in DOMAIN schedule.shifts :
       schedule.shifts[i].employee \in {None} \cup ValueRange(schedule)
  /\ \A i \in DOMAIN best.shifts :
       best.shifts[i].employee \in {None} \cup ValueRange(best)
  /\ pc = "returned" =>
       \A k \in DOMAIN output.schedule : output.schedule[k].employeeId \in InputEmployeeIds

\* a shift locked to an id that no employee has is parsed without an
\* employee, and the solver has given it one of the schedule's employees
C25_Witness ==
  /\ pc = "solving"
  /\ \E i \in DOMAIN schedule.shifts :
       /\ schedule.shifts[i].locked_employee_id \notin {None} \cup ValueRange(schedule)
       /\ parse_schedule(data).shifts[i].employee = None
       /\ schedule.shifts[i].employee \in ValueRange(schedule)

\* the fields of a shift that are not its planning variable
ProblemFacts(sh) ==
  [i \in DOMAIN sh |-> [id |-> sh[i].id, code |-> sh[i].code, start |-> sh[i].start,
                        end |-> sh[i].end, hours |-> sh[i].hours,
                        locked_employee_id |-> sh[i].locked_employee_id]]

\* C26: from the start of the solve to the return, the employees with all
\* their fields and the shifts' id, code, start, end, hours and locked
\* employee id, of the working schedule and of the best schedule, are those
\* of the parsed input; only the assigned employee differs.
C26_OnlyAssignmentsChange ==
  Scoring =>
    \A parsed \in { parse_schedule(data) } :
       /\ schedule.employees = parsed.employees
       /\ best.employees = parsed.employees
       /\ \A facts \in { ProblemFacts(parsed.shifts) } :
            /\ ProblemFacts(schedule.shifts) = facts
            /\ ProblemFacts(best.shifts) = facts

\* the returned schedule differs from the parsed one in the employee of a
\* locked shift and of another shift
C26_Witness ==
  /\ pc = "returned"
  /\ \E i, j \in DOMAIN best.shifts :
       /\ i # j
       /\ best.shifts[i].locked_employee_id # None
       /\ best.shifts[i].employee # parse_schedule(data).shifts[i].employee
       /\ best.shifts[j].employee # parse_schedule(data).shifts[j].employee

\* the starts and ends of the schedule's shifts and of its employees' spans
Instants(sched) ==
  UNION { {sched.shifts[i].start, sched.shifts[i].end} : i \in DOMAIN sched.shifts }
  \cup UNION { UNION { {emp.unavailable_time_spans[k].start, emp.unavailable_time_spans[k].end} :
                         k \in DOMAIN emp.unavailable_time_spans }
               \cup UNION { {emp.preferred_time_spans[k].start, emp.preferred_time_spans[k].end} :
                              k \in DOMAIN emp.preferred_time_spans } :
               emp \in { sched.employees[e] : e \in DOMAIN sched.employees } }

\* the later of the two starts is before the earlier of the two ends: each
\* start is before each end
StartsBeforeEnds(ts, a, b) == ts.start < ts.end /\ ts.start < b /\ a < ts.end /\ a < b

\* C30: for every span of every employee of the parsed schedule and every
\* pair of instants of the schedule, overlaps holds exactly when the later
\* start is before the earlier end, is false when one interval ends where the
\* other starts, and gives the same answer with the two intervals exchanged;
\* is_unavailable and has_preference hold exactly when one of the employee's
\* spans of that kind overlaps, so never for an empty list.
C30_OverlapsHalfOpen ==
  pc = "parsed" =>
    \A e \in DOMAIN schedule.employees :
      LET emp == schedule.employees[e]
          un == emp.unavailable_time_spans
          pr == emp.preferred_time_spans
          spans == { un[k] : k \in DOMAIN un } \cup { pr[k] : k \in DOMAIN pr }
      IN \A a, b \in Instants(schedule) :
           /\ \A ts \in spans :
                /\ overlaps(ts, a, b) <=> StartsBeforeEnds(ts, a, b)
                /\ (ts.end = a \/ b = ts.start) => ~overlaps(ts, a, b)
                /\ overlaps(ts, a, b) <=> overlaps([start |-> a, end |-> b], ts.start, ts.end)
           /\ is_unavailable(emp, a, b) <=> \E k \in DOMAIN un : StartsBeforeEnds(un[k], a, b)
           /\ has_preference(emp, a, b) <=> \E k \in DOMAIN pr : StartsBeforeEnds(pr[k], a, b)
           /\ un = <<>> => ~is_unavailable(emp, a, b)
           /\ pr = <<>> => ~has_preference(emp, a, b)

\* an employee is unavailable for a shift inside the span and available for
\* the shift that starts where the span ends; another employee prefers a
\* shift and has an empty unavailable list
C30_Witness ==
  /\ pc = "parsed"
  /\ \E e \in DOMAIN schedule.employees, i, j \in DOMAIN schedule.shifts :
       LET emp == schedule.employees[e]
       IN /\ emp.unavailable_time_spans # <<>>
          /\ is_unavailable(emp, schedule.shifts[i].start, schedule.shifts[i].end)
          /\ emp.unavailable_time_spans[1].end = schedule.shifts[j].start
          /\ ~is_unavailable(emp, schedule.shifts[j].start, schedule.shifts[j].end)
  /\ \E e \in DOMAIN schedule.employees, i \in DOMAIN schedule.shifts :
       LET emp == schedule.employees[e]
       IN /\ emp.unavailable_time_spans = <<>>
          /\ has_preference(emp, schedule.shifts[i].start, schedule.shifts[i].end)

\* no employee of the schedule can take shift i without being unavailable
\* for it or working another shift of the same date
NoCandidate(sched, i) ==
  \A e \in DOMAIN sched.employees :
    \/ is_unavailable(sched.employees[e], sched.shifts[i].start, sched.shifts[i].end)
    \/ \E j \in DOMAIN sched.shifts \ {i} :
         /\ sched.shifts[j].employee = sched.employees[e].id
         /\ DateOf(sched.shifts[j].start) = DateOf(sched.shifts[i].start)

\* C28: a solver step never gives an employee to an unlocked shift without
\* one while every employee is unavailable for the shift or already works on
\* its date: such a shift is left unassigned.
C28_NoCandidateLeftUnassigned ==
  [][\A i \in DOMAIN schedule.shifts :
       (/\ pc = "solving" /\ pc' = "solving"
        /\ schedule.shifts[i].locked_employee_id = None
        /\ schedule.shifts[i].employee = None
        /\ NoCandidate(schedule, i))
       => schedule'.shifts[i].employee = None]_vars

(* ------------------- Move Generator, Local Search Engine ------------------- *)
\* The design's own search engine: in the repository the search is the
\* external solver that solver.py calls, so this section follows the design
\* document (4.2 Move Generator, 4.3 Local Search Engine).

PlateauLimit == 2

\* shifts that carry no lockedEmployeeId: the only move targets
Unlocked(sh) == { i \in DOMAIN sh : sh[i].locked_employee_id = None }

\* Reassign: one unlocked shift gets a candidate employee or none
Reassign(i, from, to) ==
  [kind |-> "Reassign", shift |-> i, other |-> i, from |-> from, to |-> to]

\* Swap: two distinct unlocked shifts exchange their employees
Swap(i, j) == [kind |-> "Swap", shift |-> i, other |-> j, from |-> None, to |-> None]

\* the candidate moves of a schedule
Moves(sched) ==
  { Reassign(i, sched.shifts[i].employee, e) :
      i \in Unlocked(sched.shifts), e \in ValueRange(sched) \cup {None} }
  \cup { Swap(p[1], p[2]) :
           p \in { q \in Unlocked(sched.shifts) \X Unlocked(sched.shifts) : q[1] < q[2] } }

\* a swap that copies the first shift's employee to the second
ApplyMove_SwapCopies(sh, m) ==
  IF m.kind = "Reassign" THEN [sh EXCEPT ![m.shift].employee = m.to]
  ELSE [sh EXCEPT ![m.other].employee = sh[m.shift].employee]

ApplyMove(sh, m) ==
  IF m.kind = "Reassign" THEN [sh EXCEPT ![m.shift].employee = m.to]
  ELSE [sh EXCEPT ![m.shift].employee = sh[m.other].employee,
                  ![m.other].employee = sh[m.shift].employee]

\* the paired inverse of a move
UndoMove(sh, m) ==
  IF m.kind = "Reassign" THEN [sh EXCEPT ![m.shift].employee = m.from]
  ELSE ApplyMove(sh, m)

\* str "<" on employee ids
EmployeeIdRank(id) == CASE id = "E1" -> 1 [] id = "E2" -> 2 [] OTHER -> 9

\* the employees construction may give shift i: not unavailable for it and
\* without a shift on its date
Candidates(sched, i) ==
  { e \in DOMAIN sched.employees :
      /\ ~is_unavailable(sched.employees[e], sched.shifts[i].start, sched.shifts[i].end)
      /\ ~\E j \in DOMAIN sched.shifts \ {i} :
            /\ sched.shifts[j].employee = sched.employees[e].id
            /\ DateOf(sched.shifts[j].start) = DateOf(sched.shifts[i].start) }

\* the greedy choice for shift i: best soft score, ties by employee id
ConstructChoice(sched, provider, i) ==
  LET C == Candidates(sched, i)
      soft == [e \in C |->
                 CalculateScore(provider,
                                [sched.shifts EXCEPT ![i].employee = sched.employees[e].id],
                                sched.employees).soft]
  IN IF C = {} THEN None
     ELSE sched.employees[CHOOSE e \in C : \A f \in C \ {e} :
            \/ soft[e] > soft[f]
            \/ /\ soft[e] = soft[f]
               /\ EmployeeIdRank(sched.employees[e].id)
                    < EmployeeIdRank(sched.employees[f].id)].id

\* the engine is handed the parsed and scored schedule and starts in
\* Constructing with the unlocked shifts queued in (start, id) order
EngineInit ==
  /\ pc = "solving"
  /\ \E cells \in SUBSET Grid, lock \in {None, "E1"}, un \in UnavailableChoices :
        /\ Cardinality(cells) = NumShifts
        /\ FirstCell \in cells
        /\ lock = None \/ un = <<>>
        /\ un # <<>> => un[1].start = 0
        /\ data = InputData(cells, lock, <<>>, un, "constraintConfig", CrewConstraints)
  /\ constraint_provider = build_constraint_provider(SolveConstraintConfig(data))
  /\ constraintMatchTotals = MatchTotals(constraint_provider, parse_schedule(data).shifts,
                                         parse_schedule(data).employees)
  /\ schedule = [parse_schedule(data) EXCEPT !.score = <<SumScores(constraintMatchTotals)>>]
  /\ best = schedule
  /\ output = EmptyDict
  /\ log = <<>>
  /\ spent = FALSE
  /\ engine = [state |-> "Constructing",
               queue |-> SortedByStartId(schedule.shifts, Unlocked(schedule.shifts)),
               visited |-> <<>>, last |-> <<>>, plateau |-> 0]

\* one construction step: the next queued shift is visited
Construct ==
  /\ engine.state = "Constructing"
  /\ engine.queue # <<>>
  /\ LET i == Head(engine.queue)
         e == ConstructChoice(schedule, constraint_provider, i)
         sh == [schedule.shifts EXCEPT ![i].employee = e]
     IN /\ constraintMatchTotals' = MatchTotals(constraint_provider, sh, schedule.employees)
        /\ schedule' = [schedule EXCEPT !.shifts = sh,
                                        !.score = <<SumScores(constraintMatchTotals')>>]
        /\ engine' = [engine EXCEPT !.queue = Tail(engine.queue),
                                    !.visited = Append(engine.visited, i)]
  /\ UNCHANGED <<pc, data, constraint_provider, best, output, log, spent>>

\* Improving entered while shifts are still queued
StartImproving_Early ==
  /\ engine.state = "Constructing"
  /\ engine' = [engine EXCEPT !.state = "Improving"]
  /\ best' = schedule
  /\ UNCHANGED <<pc, data, schedule, constraint_provider, constraintMatchTotals, output, log,
                 spent>>

\* Constructing -> Improving once every unlocked shift has been visited
StartImproving ==
  /\ engine.state = "Constructing"
  /\ engine.queue = <<>>
  /\ engine' = [engine EXCEPT !.state = "Improving"]
  /\ best' = schedule
  /\ UNCHANGED <<pc, data, schedule, constraint_provider, constraintMatchTotals, output, log,
                 spent>>

\* a step that accepts a move of equal score only on the random draw
Step_TiesOnDraw(m, roll) ==
  /\ engine.state = "Improving"
  /\ ~spent
  /\ engine.plateau < PlateauLimit
  /\ \E totals \in { MatchTotals(constraint_provider, ApplyMove(schedule.shifts, m),
                                  schedule.employees) } :
       LET after == SumScores(totals)
           accepted == ScoreCompare(after, schedule.score[1]) > 0 \/ roll
           improved == ScoreCompare(after, best.score[1]) > 0
       IN /\ IF accepted
             THEN /\ schedule' = [schedule EXCEPT !.shifts = ApplyMove(schedule.shifts, m),
                                                  !.score = <<after>>]
                  /\ constraintMatchTotals' = totals
             ELSE /\ schedule' = [schedule EXCEPT
                                    !.shifts = UndoMove(ApplyMove(schedule.shifts, m), m)]
                  /\ constraintMatchTotals' = constraintMatchTotals
          /\ best' = IF improved THEN schedule' ELSE best
          /\ engine' = [engine EXCEPT !.last = << [move |-> m, accepted |-> accepted] >>,
                                      !.plateau = IF improved THEN 0 ELSE engine.plateau + 1]
  /\ UNCHANGED <<pc, data, constraint_provider, output, log, spent>>

\* one Improving step: candidate move m is applied and scored, kept when its
\* score is not worse than the current one or the random draw says so, and
\* undone otherwise; a new global best is snapshotted
Step(m, roll) ==
  /\ engine.state = "Improving"
  /\ ~spent
  /\ engine.plateau < PlateauLimit
  /\ \E totals \in { MatchTotals(constraint_provider, ApplyMove(schedule.shifts, m),
                                  schedule.employees) } :
       LET after == SumScores(totals)
           accepted == ScoreCompare(after, schedule.score[1]) >= 0 \/ roll
           improved == ScoreCompare(after, best.score[1]) > 0
       IN /\ IF accepted
             THEN /\ schedule' = [schedule EXCEPT !.shifts = ApplyMove(schedule.shifts, m),
                                                  !.score = <<after>>]
                  /\ constraintMatchTotals' = totals
             ELSE /\ schedule' = [schedule EXCEPT
                                    !.shifts = UndoMove(ApplyMove(schedule.shifts, m), m)]
                  /\ constraintMatchTotals' = constraintMatchTotals
          /\ best' = IF improved THEN schedule' ELSE best
          /\ engine' = [engine EXCEPT !.last = << [move |-> m, accepted |-> accepted] >>,
                                      !.plateau = IF improved THEN 0 ELSE engine.plateau + 1]
  /\ UNCHANGED <<pc, data, constraint_provider, output, log, spent>>

\* Terminated on the time limit or the plateau cutoff: the working schedule
\* is discarded for the snapshotted best
EngineTerminate ==
  /\ engine.state = "Improving"
  /\ spent \/ engine.plateau >= PlateauLimit
  /\ engine' = [engine EXCEPT !.state = "Terminated"]
  /\ schedule' = best
  /\ constraintMatchTotals' = MatchTotals(constraint_provider, best.shifts, best.employees)
  /\ UNCHANGED <<pc, data, constraint_provider, best, output, log, spent>>

EngineNext ==
  \/ Construct
  \/ StartImproving
  \/ \E m \in Moves(schedule), roll \in BOOLEAN : Step(m, roll)
  \/ TimeUp
  \/ EngineTerminate

EngineSpec == EngineInit /\ [][EngineNext]_vars

\* C22: for every schedule the engine holds, a swap of two distinct unlocked
\* shifts applied twice gives back every shift's employee, and undoing a
\* reassign that was applied gives back the schedule it was applied to.
C22_MovesReversible ==
  \A m \in Moves(schedule) :
    /\ m.kind = "Swap" =>
         /\ m.shift # m.other
         /\ ApplyMove(ApplyMove(schedule.shifts, m), m) = schedule.shifts
    /\ m.kind = "Reassign" =>
         UndoMove(ApplyMove(schedule.shifts, m), m) = schedule.shifts

\* the last candidate was a reassign that changed a shift and was rejected,
\* and two unlocked shifts with different employees can be swapped
C22_Witness ==
  /\ engine.state = "Improving"
  /\ engine.last # <<>>
  /\ engine.last[1].move.kind = "Reassign"
  /\ engine.last[1].move.from # engine.last[1].move.to
  /\ ~engine.last[1].accepted
  /\ \E m \in Moves(schedule) :
       /\ m.kind = "Swap"
       /\ schedule.shifts[m.shift].employee # schedule.shifts[m.other].employee
       /\ schedule.shifts[m.shift].employee # None
       /\ schedule.shifts[m.other].employee # None

\* C27: the engine starts in Constructing and its state only moves
\* Constructing -> Improving -> Terminated: Constructing is never entered
\* again, it is left only for Improving and only when the visited shifts are
\* the unlocked shifts, each once; while Constructing only the shift at the
\* head of the queue changes and no candidate move has been evaluated; once
\* Terminated neither the state nor the schedule changes.
C27_ForwardOnly ==
  /\ engine.state = "Constructing"
  /\ [][/\ engine.state = "Constructing" => engine'.state \in {"Constructing", "Improving"}
        /\ engine.state = "Improving" => engine'.state \in {"Improving", "Terminated"}
        /\ engine.state = "Terminated" =>
             /\ engine' = engine
             /\ schedule' = schedule
             /\ best' = best
        /\ (engine.state = "Constructing" /\ engine'.state = "Improving") =>
             /\ Len(engine.visited) = Cardinality(Unlocked(schedule.shifts))
             /\ { engine.visited[k] : k \in DOMAIN engine.visited } = Unlocked(schedule.shifts)
        /\ engine'.state = "Constructing" =>
             /\ engine'.last = <<>>
             /\ \A i \in DOMAIN schedule.shifts :
                  schedule'.shifts[i] # schedule.shifts[i] =>
                    /\ engine.queue # <<>>
                    /\ i = Head(engine.queue)
                    /\ engine'.visited = Append(engine.visited, i)]_vars

\* the engine has terminated after visiting several shifts and evaluating a
\* candidate move
C27_Witness ==
  /\ engine.state = "Terminated"
  /\ Len(engine.visited) >= 2
  /\ engine.last # <<>>
  /\ \E i \in DOMAIN schedule.shifts : schedule.shifts[i].employee = None

\* C29: in every Improving step the candidate move is applied when the score
\* of the moved schedule is not worse than the current score, equal scores
\* included, and the schedule then holds the moved assignments and their
\* score; a candidate is rejected only when its score is worse, and then the
\* assignments and the score are those from before the step.
C29_NotWorseAccepted ==
  [][(/\ engine.state = "Improving" /\ engine'.state = "Improving"
      /\ spent' = spent
      /\ engine'.last # <<>>) =>
       LET l == engine'.last[1]
           applied == ApplyMove(schedule.shifts, l.move)
       IN \A after \in { CalculateScore(constraint_provider, applied, schedule.employees) } :
            /\ ScoreCompare(after, schedule.score[1]) >= 0 =>
                 /\ l.accepted
                 /\ schedule'.shifts = applied
                 /\ schedule'.score = <<after>>
            /\ ~l.accepted =>
                 /\ ScoreCompare(after, schedule.score[1]) < 0
                 /\ schedule'.shifts = schedule.shifts
                 /\ schedule'.score = schedule.score]_vars

\* the last candidate changed the assignments, left the score equal and was
\* accepted
C29_Witness ==
  /\ engine.state = "Improving"
  /\ engine.last # <<>>
  /\ engine.last[1].accepted
  /\ engine.last[1].move.kind = "Reassign"
  /\ engine.last[1].move.from # engine.last[1].move.to
  /\ schedule.shifts[engine.last[1].move.shift].employee = engine.last[1].move.to
  /\ schedule.score[1] =
       CalculateScore(constraint_provider, UndoMove(schedule.shifts, engine.last[1].move),
                      schedule.employees)
====
